---- MODULE Spec2Model ----
(***************************************************************************)
(* beachboom: pose-driven soccer scene.                                    *)
(*                                                                         *)
(* SoccerScene (src/src/scene.ts, lines 1-273) owns the projectile         *)
(* lifecycle: a 5 s interval timer calls spawnBall, which pushes a ball    *)
(* and runs cleanupBalls; render() steps the physics world, copies every   *)
(* live body's transform to its mesh, draws and re-arms itself.            *)
(*                                                                         *)
(* The page script (src/unnamed/part_000) loads the pose model, and on     *)
(* start schedules detectPose, which awaits detectForVideo, draws the      *)
(* result (drawResults calls updateColliderBoxes and soccerScene.render)   *)
(* and requests its next frame; stop cancels the request animationId names.*)
(*                                                                         *)
(* All handlers run to completion on one event loop, so each handler is    *)
(* one action, split at its awaits.  A position is abstracted to the one   *)
(* predicate the code reads: distanceFromOrigin > removalDistance.         *)
(***************************************************************************)
EXTENDS Integers, Sequences, FiniteSets

\* ---------------------------------------------------------------- bounds
\* Spawn-timer ticks explored in one run.
MaxSpawns == 12
\* Times the physics may carry a projectile across the removal distance.
MaxFar == 1
\* Clicks on the start button explored in one run.
MaxStarts == 2
\* Self re-arming render() chains explored in one run.
MaxRender == 2
\* Spawn-timer ticks explored while the page's loops are interleaved with them.
PageSpawns == 1
\* Keypoint coordinates are the fractions 0/Grid .. Grid/Grid of the image.
Grid == 4
\* Distinct detected poses fed to the proxy synchronizer in one run.
Poses == 2
\* Distinct detected poses while the page's loops are interleaved with them.
PagePoses == 1

\* ------------------------------------------------------ program constants
\* cleanupBalls: const maxBalls = 10
maxBalls == 10
\* calculateBodyBoundingBoxes: const padding = 0.05, in percent
paddingPercent == 5
\* updateColliderBoxes: the world scale factor in scale.set / position.set
worldScale == 3
\* The landmark count of the pose model's layout (highest index read: 32)
LayoutLength == 33

VARIABLES
  balls,        \* this.balls: sequence of [mesh, rigidBody] handles
  scene,        \* ball meshes currently in this.scene
  rapierWorld,  \* ball rigid bodies currently in this.rapierWorld
  meshFar,      \* meshes whose position is beyond removalDistance
  bodyFar,      \* rigid bodies whose translation is beyond removalDistance
  spawnCount,   \* number of spawnBall calls so far (the next handle is +1)
  farCount,     \* number of times a body crossed the removal distance
  removeCalls,  \* per handle, the removeRigidBody / scene.remove calls so far
  colliders,    \* colliders in this.rapierWorld
  colliderBoxes,\* this.colliderBoxes: per part, its proxy mesh and transform
  proxies,      \* proxy meshes in this.scene, as <<part, serial>>
  created,      \* per part, the proxy meshes constructed so far
  placed,       \* per part, scale.set / position.set calls: 0, 1, 2 = several
  poseLandmarks,\* argument of the last calculateBodyBoundingBoxes call
  bodyBoxes,    \* its return value, or the argument of updateColliderBoxes
  renderRaf,    \* pending requestAnimationFrame(() => this.render()) requests
  poseDetector, \* TRUE once PoseLandmarker.createFromOptions resolved
  videoState,   \* "nosrc" (paused, no dimensions), "loading" (playing, no
                \* dimensions yet), "playing", "ended"
  videoStream,  \* TRUE once a MediaStream was assigned
  startDisabled,\* startBtn.disabled
  stopDisabled, \* stopBtn.disabled
  animationId,  \* "undefined", or the request it names: "pending" / "spent"
  detectRaf,    \* pending detectPose frame requests animationId no longer names
  detectTimers, \* pending setTimeout(detectPose, 500)
  awaiting,     \* detectPose invocations suspended at await detectForVideo
  startAwait,   \* start handlers suspended at await getUserMedia(...)
  playAwait,    \* start handlers suspended at await video.play()
  starts,       \* start clicks so far
  stopped,      \* stop was clicked and start has not been clicked since
  endedSeen,    \* detectPose saw the video paused or ended since the last start
  ran           \* what the last handler executed

sceneVars == <<balls, scene, rapierWorld, meshFar, bodyFar, spawnCount, farCount,
               removeCalls>>
proxyVars == <<colliderBoxes, proxies, created, placed, poseLandmarks, bodyBoxes>>
loopVars == <<poseDetector, videoState, videoStream, startDisabled, stopDisabled,
              animationId, detectRaf, detectTimers, awaiting, startAwait, playAwait,
              starts, stopped, endedSeen>>
vars == <<balls, scene, rapierWorld, meshFar, bodyFar, spawnCount, farCount,
          removeCalls, colliders, colliderBoxes, proxies, created, placed, poseLandmarks,
          bodyBoxes,
          renderRaf, poseDetector, videoState, videoStream,
          startDisabled, stopDisabled, animationId, detectRaf, detectTimers,
          awaiting, startAwait, playAwait, starts, stopped, endedSeen, ran>>

Parts == {"head", "leftHand", "rightHand", "leftLeg", "rightLeg", "torso"}

\* ---------------------------------------------------------- Keypoint Mapper
\* Numbers are exact fixed-point values: a keypoint coordinate k stands for
\* k/Grid, and an NDC or world length is counted in ticks of 1/Unit, so
\* that x*2-1, the 5 % padding and the halving of max+min are all exact.
Unit == 20 * Grid

Undefined == [kind |-> "undefined"]
Null      == [kind |-> "null"]
TypeError == [kind |-> "TypeError"]

MinOf(S) == CHOOSE m \in S : \A v \in S : m <= v
MaxOf(S) == CHOOSE m \in S : \A v \in S : m >= v

\* pose[k] for a 0-based index k: undefined past the end of the array.
At(pose, k) == IF k + 1 \in DOMAIN pose THEN pose[k + 1] ELSE Undefined

\* The points each box is built from: pose.slice(0, 11) for the head, the
\* listed indices for the others.
GroupPoints(pose, part) ==
  CASE part = "head"      -> SubSeq(pose, 1, IF Len(pose) < 11 THEN Len(pose) ELSE 11)
    [] part = "leftHand"  -> <<At(pose, 15), At(pose, 17), At(pose, 19), At(pose, 21)>>
    [] part = "rightHand" -> <<At(pose, 16), At(pose, 18), At(pose, 20), At(pose, 22)>>
    [] part = "leftLeg"   -> <<At(pose, 23), At(pose, 25), At(pose, 27), At(pose, 29), At(pose, 31)>>
    [] part = "rightLeg"  -> <<At(pose, 24), At(pose, 26), At(pose, 28), At(pose, 30), At(pose, 32)>>
    [] part = "torso"     -> <<At(pose, 11), At(pose, 12), At(pose, 23), At(pose, 24)>>

Color(part) ==
  CASE part = "head"      -> "yellow"
    [] part = "leftHand"  -> "blue"
    [] part = "rightHand" -> "green"
    [] part = "leftLeg"   -> "purple"
    [] part = "rightLeg"  -> "orange"
    [] part = "torso"     -> "red"

\* p.x * 2 - 1 and -(p.y * 2 - 1), in ticks.
ndcX(p) == (p.x * 2 * Unit) \div Grid - Unit
ndcY(p) == -((p.y * 2 * Unit) \div Grid - Unit)

\* createBox that negates y after taking the minimum and the maximum.
createBox_FlipAfter(points, color) ==
  IF \E i \in DOMAIN points : points[i].kind = "undefined" THEN TypeError
  ELSE IF points = << >>
  THEN [kind |-> "box", minX |-> "Infinity", maxX |-> "-Infinity",
        minY |-> "Infinity", maxY |-> "-Infinity", color |-> color]
  ELSE LET xs     == {ndcX(points[i]) : i \in DOMAIN points}
           ys     == {-ndcY(points[i]) : i \in DOMAIN points}
           minX   == MinOf(xs)
           maxX   == MaxOf(xs)
           minY   == -MinOf(ys)
           maxY   == -MaxOf(ys)
           width  == maxX - minX
           height == maxY - minY
       IN  [kind |-> "box",
            minX |-> minX - (width * paddingPercent) \div 100,
            maxX |-> maxX + (width * paddingPercent) \div 100,
            minY |-> minY - (height * paddingPercent) \div 100,
            maxY |-> maxY + (height * paddingPercent) \div 100,
            color |-> color]

\* createBox that pads by 5 % of the unit length instead of the box's own
\* width and height.
createBox_PadOfUnit(points, color) ==
  IF \E i \in DOMAIN points : points[i].kind = "undefined" THEN TypeError
  ELSE IF points = << >>
  THEN [kind |-> "box", minX |-> "Infinity", maxX |-> "-Infinity",
        minY |-> "Infinity", maxY |-> "-Infinity", color |-> color]
  ELSE LET xs     == {ndcX(points[i]) : i \in DOMAIN points}
           ys     == {ndcY(points[i]) : i \in DOMAIN points}
           minX   == MinOf(xs)
           maxX   == MaxOf(xs)
           minY   == MinOf(ys)
           maxY   == MaxOf(ys)
       IN  [kind |-> "box",
            minX |-> minX - (Unit * paddingPercent) \div 100,
            maxX |-> maxX + (Unit * paddingPercent) \div 100,
            minY |-> minY - (Unit * paddingPercent) \div 100,
            maxY |-> maxY + (Unit * paddingPercent) \div 100,
            color |-> color]

\* createBox(points, color): reading .x of an undefined point throws; of no
\* point at all, Math.min() is Infinity and Math.max() is -Infinity.
createBox(points, color) ==
  IF \E i \in DOMAIN points : points[i].kind = "undefined" THEN TypeError
  ELSE IF points = << >>
  THEN [kind |-> "box", minX |-> "Infinity", maxX |-> "-Infinity",
        minY |-> "Infinity", maxY |-> "-Infinity", color |-> color]
  ELSE LET xs     == {ndcX(points[i]) : i \in DOMAIN points}
           ys     == {ndcY(points[i]) : i \in DOMAIN points}
           minX   == MinOf(xs)
           maxX   == MaxOf(xs)
           minY   == MinOf(ys)
           maxY   == MaxOf(ys)
           width  == maxX - minX
           height == maxY - minY
       IN  [kind |-> "box",
            minX |-> minX - (width * paddingPercent) \div 100,
            maxX |-> maxX + (width * paddingPercent) \div 100,
            minY |-> minY - (height * paddingPercent) \div 100,
            maxY |-> maxY + (height * paddingPercent) \div 100,
            color |-> color]

\* calculateBodyBoundingBoxes(poseLandmarks): null for an absent or empty
\* list of poses, else the six boxes of poseLandmarks[0]; an exception of
\* createBox propagates.
calculateBodyBoundingBoxes(landmarks) ==
  IF landmarks.kind = "undefined" THEN Null
  ELSE IF Len(landmarks.items) = 0 THEN Null
  ELSE LET pose  == landmarks.items[1]
           boxes == [part \in Parts |-> createBox(GroupPoints(pose, part), Color(part))]
       IN  IF \E part \in Parts : boxes[part].kind = "TypeError"
           THEN TypeError
           ELSE [kind |-> "boxes", boxes |-> boxes]

\* A perception result: a list of poses, each a list of keypoints.
Landmarks(poseList) == [kind |-> "array", items |-> poseList]

\* A pose of n keypoints: x cycles through b .. b + a and y through
\* d .. d + c along the layout, so that the groups of one pose differ in
\* extent (a group of indices two apart is flat when a = 1).
Pose(a, b, c, d, n) ==
  [i \in 1..n |-> [kind |-> "point",
                   x |-> b + ((i - 1) % (a + 1)),
                   y |-> d + ((i - 1) % (c + 1))]]

\* Arguments of the mapper: absent, no pose, every full-layout pose of the
\* family inside the image, and poses shorter than the layout (empty, head
\* only, one short).
MapperInputs ==
  {Undefined, Landmarks(<< >>)}
    \cup {Landmarks(<<Pose(q[1], q[2], q[3], q[4], LayoutLength)>>) :
            q \in {r \in (0..Grid) \X (0..Grid) \X (0..Grid) \X (0..Grid) :
                     r[1] + r[2] <= Grid /\ r[3] + r[4] <= Grid}}
    \cup {Landmarks(<<Pose(1, 0, 1, 0, n)>>) : n \in {0, 11, LayoutLength - 1}}

\* The poses a run of the page or of the synchronizer detects.
DetectedPose(k) == Pose(k, 1, 1, k, LayoutLength)

\* ------------------------------------------------------------ SoccerScene

Meshes(bs) == {bs[i].mesh : i \in DOMAIN bs}
Bodies(bs) == {bs[i].rigidBody : i \in DOMAIN bs}

\* shiftWhileOver with the cap test off by one.
RECURSIVE shiftWhileOver_OffByOne(_)
shiftWhileOver_OffByOne(bs) ==
  IF Len(bs) > maxBalls + 1 THEN shiftWhileOver_OffByOne(Tail(bs)) ELSE bs

\* Array.prototype.shift applied until length <= maxBalls; returns the
\* survivors (the evicted ones are the removed prefix).
RECURSIVE shiftWhileOver(_)
shiftWhileOver(bs) ==
  IF Len(bs) > maxBalls THEN shiftWhileOver(Tail(bs)) ELSE bs

\* The entries the distance filter removes: those whose mesh is beyond the
\* removal distance, in list order.
farEntries(bs, mfar) ==
  SelectSeq(bs, LAMBDA b : b.mesh \in mfar)

\* What a pass leaves: the list, the scene and the world without the
\* removed entries, and the removal calls it made, in call order.
passResult(kept, sc, wd, removed) ==
  [balls   |-> kept,
   scene   |-> sc \ Meshes(removed),
   world   |-> wd \ Bodies(removed),
   removed |-> removed]

\* cleanupBalls without the cap loop.
cleanupBalls_NoCap(bs, sc, wd, mfar) ==
  LET kept == SelectSeq(bs, LAMBDA b : b.mesh \notin mfar)
  IN  passResult(kept, sc, wd, farEntries(bs, mfar))

\* cleanupBalls whose cap loop uses pop() (evicts the newest) instead of shift().
cleanupBalls_Pop(bs, sc, wd, mfar) ==
  LET kept   == SelectSeq(bs, LAMBDA b : b.mesh \notin mfar)
      capped == IF Len(kept) > maxBalls THEN SubSeq(kept, 1, maxBalls) ELSE kept
  IN  passResult(capped, sc, wd,
                 farEntries(bs, mfar) \o SubSeq(kept, Len(capped) + 1, Len(kept)))

\* cleanupBalls without the distance filter.
cleanupBalls_NoDistance(bs, sc, wd, mfar) ==
  LET capped == shiftWhileOver(bs)
  IN  passResult(capped, sc, wd, SubSeq(bs, 1, Len(bs) - Len(capped)))

\* cleanupBalls whose cap loop forgets removeRigidBody.
cleanupBalls_LeakBody(bs, sc, wd, mfar) ==
  LET kept    == SelectSeq(bs, LAMBDA b : b.mesh \notin mfar)
      capped  == shiftWhileOver(kept)
      evicted == SubSeq(kept, 1, Len(kept) - Len(capped))
  IN  [balls   |-> capped,
       scene   |-> sc \ (Meshes(farEntries(bs, mfar)) \cup Meshes(evicted)),
       world   |-> wd \ Bodies(farEntries(bs, mfar)),
       removed |-> farEntries(bs, mfar)]

\* cleanupBalls whose filter callback removes a far ball from the scene and
\* the world but keeps it in the list (returns true).
cleanupBalls_FilterKeeps(bs, sc, wd, mfar) ==
  LET capped == shiftWhileOver(bs)
  IN  passResult(capped, sc, wd,
                 farEntries(bs, mfar) \o SubSeq(bs, 1, Len(bs) - Len(capped)))

\* cleanupBalls that applies the cap loop before the distance filter.
cleanupBalls_CapFirst(bs, sc, wd, mfar) ==
  LET capped == shiftWhileOver(bs)
      kept   == SelectSeq(capped, LAMBDA b : b.mesh \notin mfar)
  IN  passResult(kept, sc, wd,
                 SubSeq(bs, 1, Len(bs) - Len(capped)) \o farEntries(capped, mfar))

\* cleanupBalls(): the distance filter on mesh positions, then the cap loop;
\* every removal calls scene.remove(mesh) and removeRigidBody(rigidBody).
cleanupBalls(bs, sc, wd, mfar) ==
  LET kept    == SelectSeq(bs, LAMBDA b : b.mesh \notin mfar)
      capped  == shiftWhileOver(kept)
      evicted == SubSeq(kept, 1, Len(kept) - Len(capped))
  IN  passResult(capped, sc, wd, farEntries(bs, mfar) \o evicted)

\* removeCalls after a spawn that created handle id and a pass that made
\* the removal calls in removed.
countRemovals(calls, id, removed) ==
  [h \in 1..id |->
     (IF h \in DOMAIN calls THEN calls[h] ELSE 0)
       + Cardinality({i \in DOMAIN removed : removed[i].rigidBody = h})]

\* The collider createCollider(groundColliderDesc) adds in the constructor,
\* and the one createCollider(colliderDesc, rigidBody) attaches to a ball's
\* body.
groundCollider == [kind |-> "ground", body |-> 0]
ballCollider(rigidBody) == [kind |-> "ball", body |-> rigidBody]
proxyCollider(part) == [kind |-> part, body |-> 0]

\* spawnBall without its last line, the cleanupBalls() call.
spawnBall_NoCleanup ==
  LET id == spawnCount + 1
  IN  /\ balls' = Append(balls, [mesh |-> id, rigidBody |-> id])
      /\ scene' = scene \cup {id}
      /\ rapierWorld' = rapierWorld \cup {id}
      /\ colliders' = colliders \cup {ballCollider(id)}
      /\ meshFar' = meshFar
      /\ bodyFar' = bodyFar
      /\ spawnCount' = id
      /\ farCount' = farCount
      /\ removeCalls' = countRemovals(removeCalls, id, << >>)

\* spawnBall(): new mesh, body and collider at (0,2,4) (distance sqrt(20)
\* < 10), push, then cleanupBalls(); each removeRigidBody call of the pass
\* takes the body's attached collider out of the world with it.
spawnBall ==
  LET id  == spawnCount + 1
      res == cleanupBalls(Append(balls, [mesh |-> id, rigidBody |-> id]),
                          scene \cup {id}, rapierWorld \cup {id}, meshFar)
  IN  /\ balls' = res.balls
      /\ scene' = res.scene
      /\ rapierWorld' = res.world
      /\ colliders' = (colliders \cup {ballCollider(id)})
                        \ {ballCollider(res.removed[i].rigidBody) : i \in DOMAIN res.removed}
      /\ meshFar' = meshFar \cap res.scene
      /\ bodyFar' = bodyFar \cap res.world
      /\ spawnCount' = id
      /\ farCount' = farCount
      /\ removeCalls' = countRemovals(removeCalls, id, res.removed)

\* render() that also runs the cleanup pass after the copy.
render_WithCleanup(far) ==
  LET mf  == (meshFar \ Meshes(balls))
               \cup {balls[i].mesh : i \in {j \in DOMAIN balls : balls[j].rigidBody \in far}}
      res == cleanupBalls(balls, scene, rapierWorld, mf)
  IN  /\ far \subseteq rapierWorld
      /\ farCount + Cardinality(far \ bodyFar) <= MaxFar
      /\ balls' = res.balls
      /\ scene' = res.scene
      /\ rapierWorld' = res.world
      /\ bodyFar' = far \cap res.world
      /\ meshFar' = mf \cap res.scene
      /\ farCount' = farCount + Cardinality(far \ bodyFar)
      /\ removeCalls' = countRemovals(removeCalls, spawnCount, res.removed)
      /\ UNCHANGED spawnCount

\* render() up to its last line (that line, requestAnimationFrame(() =>
\* this.render()), is accounted by the calling action in renderRaf):
\* rapierWorld.step() moves every body in the world (far is the
\* set of bodies beyond the removal distance afterwards), then each live
\* ball's mesh takes the position of its rigid body.
render(far) ==
  /\ far \subseteq rapierWorld
  /\ farCount + Cardinality(far \ bodyFar) <= MaxFar
  /\ bodyFar' = far
  /\ meshFar' = (meshFar \ Meshes(balls))
                  \cup {balls[i].mesh : i \in {j \in DOMAIN balls : balls[j].rigidBody \in far}}
  /\ farCount' = farCount + Cardinality(far \ bodyFar)
  /\ UNCHANGED <<balls, scene, rapierWorld, spawnCount, removeCalls>>

\* this.colliderBoxes[part] when no proxy was created for the part.
NoProxy == [mesh |-> 0, scale |-> << >>, position |-> << >>]

\* scale.set(width * 3, height * 3, 0.2) and position.set(centerX * 3,
\* centerY * 3, 0) for one box, in ticks.
proxyTransform(box) ==
  LET width   == box.maxX - box.minX
      height  == box.maxY - box.minY
      centerX == (box.maxX + box.minX) \div 2
      centerY == (box.maxY + box.minY) \div 2
  IN  [scale    |-> <<width * worldScale, height * worldScale, Unit \div 5>>,
       position |-> <<centerX * worldScale, centerY * worldScale, 0>>]

\* placed after the transforms of the parts in given were set once more.
placedAfter(given) ==
  [p \in Parts |-> IF p \in given /\ placed[p] < 2 THEN placed[p] + 1 ELSE placed[p]]

\* updateColliderBoxes that sets the transform only of a proxy it creates.
updateColliderBoxes_OnlyOnCreate(bb) ==
  LET given == DOMAIN bb.boxes
      fresh == {p \in given : colliderBoxes[p].mesh = 0}
  IN  /\ colliderBoxes' =
           [p \in Parts |->
              IF p \in fresh
              THEN [mesh     |-> created[p] + 1,
                    scale    |-> proxyTransform(bb.boxes[p]).scale,
                    position |-> proxyTransform(bb.boxes[p]).position]
              ELSE colliderBoxes[p]]
      /\ created' = [p \in Parts |-> IF p \in fresh THEN created[p] + 1 ELSE created[p]]
      /\ proxies' = proxies \cup {<<p, created[p] + 1>> : p \in fresh}
      /\ placed' = placedAfter(given)
      /\ colliders' = colliders

\* updateColliderBoxes that gives every proxy it creates a collider in the
\* physics world.
updateColliderBoxes_WithCollider(bb) ==
  LET given == DOMAIN bb.boxes
      fresh == {p \in given : colliderBoxes[p].mesh = 0}
  IN  /\ colliderBoxes' =
           [p \in Parts |->
              IF p \in given
              THEN [mesh     |-> IF p \in fresh THEN created[p] + 1
                                 ELSE colliderBoxes[p].mesh,
                    scale    |-> proxyTransform(bb.boxes[p]).scale,
                    position |-> proxyTransform(bb.boxes[p]).position]
              ELSE colliderBoxes[p]]
      /\ created' = [p \in Parts |-> IF p \in fresh THEN created[p] + 1 ELSE created[p]]
      /\ proxies' = proxies \cup {<<p, created[p] + 1>> : p \in fresh}
      /\ placed' = placedAfter(given)
      /\ colliders' = colliders \cup {proxyCollider(p) : p \in fresh}

\* updateColliderBoxes that builds a new mesh on every call.
updateColliderBoxes_Recreate(bb) ==
  LET given == DOMAIN bb.boxes
  IN  /\ colliderBoxes' =
           [p \in Parts |->
              IF p \in given
              THEN [mesh     |-> created[p] + 1,
                    scale    |-> proxyTransform(bb.boxes[p]).scale,
                    position |-> proxyTransform(bb.boxes[p]).position]
              ELSE colliderBoxes[p]]
      /\ created' = [p \in Parts |-> IF p \in given THEN created[p] + 1 ELSE created[p]]
      /\ proxies' = proxies \cup {<<p, created[p] + 1>> : p \in given}
      /\ placed' = placedAfter(given)
      /\ colliders' = colliders

\* updateColliderBoxes(bodyBoxes): for every key of bodyBoxes, create the
\* proxy mesh and add it to the scene if the part has none, then set its
\* scale and position from the box.  Nothing is ever removed, and the
\* method makes no call on this.rapierWorld.
updateColliderBoxes(bb) ==
  LET given == DOMAIN bb.boxes
      fresh == {p \in given : colliderBoxes[p].mesh = 0}
  IN  /\ colliderBoxes' =
           [p \in Parts |->
              IF p \in given
              THEN [mesh     |-> IF p \in fresh THEN created[p] + 1
                                 ELSE colliderBoxes[p].mesh,
                    scale    |-> proxyTransform(bb.boxes[p]).scale,
                    position |-> proxyTransform(bb.boxes[p]).position]
              ELSE colliderBoxes[p]]
      /\ created' = [p \in Parts |-> IF p \in fresh THEN created[p] + 1 ELSE created[p]]
      /\ proxies' = proxies \cup {<<p, created[p] + 1>> : p \in fresh}
      /\ placed' = placedAfter(given)
      /\ colliders' = colliders

\* setInterval(() => this.spawnBall(), 5000)
SpawnTick ==
  /\ spawnCount < MaxSpawns
  /\ spawnBall
  /\ ran' = {"spawnBall", "cleanupBalls"}
  /\ UNCHANGED <<proxyVars, renderRaf>>
  /\ UNCHANGED loopVars

\* The spawn timer while the page runs.
PageSpawnTick ==
  /\ spawnCount < PageSpawns
  /\ SpawnTick

\* A pending render request fires: render() runs and re-arms itself.
RenderFrame ==
  /\ renderRaf > 0
  /\ \E far \in SUBSET rapierWorld : render(far)
  /\ renderRaf' = renderRaf - 1 + 1
  /\ ran' = {"step", "requestAnimationFrame"}
  /\ UNCHANGED <<proxyVars, colliders>>
  /\ UNCHANGED loopVars

\* ------------------------------------------------------------- main module

\* animationId = requestAnimationFrame(detectPose): the request animationId
\* named before, if still pending, stays pending but is no longer named.
rearm ==
  /\ animationId' = "pending"
  /\ detectRaf' = IF animationId = "pending" THEN detectRaf + 1 ELSE detectRaf

\* cancelAnimationFrame(animationId)
cancel ==
  /\ animationId' = IF animationId = "pending" THEN "spent" ELSE animationId
  /\ UNCHANGED detectRaf

\* initializePose() resolved: poseDetector assigned, start button enabled.
PoseLoaded ==
  /\ ~poseDetector
  /\ poseDetector' = TRUE
  /\ startDisabled' = FALSE
  /\ ran' = {}
  /\ UNCHANGED <<sceneVars, colliders>>
  /\ UNCHANGED <<proxyVars, renderRaf, videoState, videoStream, stopDisabled,
                 animationId, detectRaf, detectTimers, awaiting, startAwait,
                 starts, stopped, playAwait,
                 endedSeen>>

\* startBtn click: the handler runs up to await getUserMedia(...).
StartClick ==
  /\ ~startDisabled
  /\ starts < MaxStarts
  /\ starts' = starts + 1
  /\ startAwait' = startAwait + 1
  /\ stopped' = FALSE
  /\ endedSeen' = FALSE
  /\ ran' = {}
  /\ UNCHANGED <<sceneVars, colliders>>
  /\ UNCHANGED <<proxyVars, renderRaf, poseDetector, videoState, videoStream,
                 startDisabled, stopDisabled, animationId, detectRaf,
                 detectTimers, awaiting, playAwait>>

\* getUserMedia resolved: videoStream and video.srcObject assigned (the
\* element loads the new source: paused, no dimensions), video.play() called.
StartGotStream ==
  /\ startAwait > 0
  /\ startAwait' = startAwait - 1
  /\ playAwait' = playAwait + 1
  /\ videoStream' = TRUE
  /\ videoState' = "nosrc"
  /\ ran' = {}
  /\ UNCHANGED <<sceneVars, colliders>>
  /\ UNCHANGED <<proxyVars, renderRaf, poseDetector, startDisabled,
                 stopDisabled, animationId, detectRaf, detectTimers, awaiting,
                 starts, stopped,
                 endedSeen>>

\* video.play() resolved: buttons flipped, detectPose scheduled after 500 ms.
StartPlaying ==
  /\ playAwait > 0
  /\ playAwait' = playAwait - 1
  /\ \E v \in {"loading", "playing"} : videoState' = v
  /\ startDisabled' = TRUE
  /\ stopDisabled' = FALSE
  /\ detectTimers' = detectTimers + 1
  /\ ran' = {}
  /\ UNCHANGED <<sceneVars, colliders>>
  /\ UNCHANGED <<proxyVars, renderRaf, poseDetector, videoStream,
                 animationId, detectRaf, awaiting, startAwait, starts, stopped,
                 endedSeen>>

\* getUserMedia or video.play() rejected: only the status text changes.
StartRejected ==
  /\ \/ startAwait > 0 /\ startAwait' = startAwait - 1 /\ playAwait' = playAwait
     \/ playAwait > 0 /\ playAwait' = playAwait - 1 /\ startAwait' = startAwait
  /\ ran' = {}
  /\ UNCHANGED <<sceneVars, colliders>>
  /\ UNCHANGED <<proxyVars, renderRaf, poseDetector, videoState, videoStream,
                 startDisabled, stopDisabled, animationId, detectRaf,
                 detectTimers, awaiting, starts, stopped,
                 endedSeen>>

\* stopBtn click: tracks stopped, cancelAnimationFrame(animationId) when
\* animationId is set, buttons flipped.
StopClick ==
  /\ ~stopDisabled
  /\ cancel
  /\ startDisabled' = FALSE
  /\ stopDisabled' = TRUE
  /\ stopped' = TRUE
  /\ ran' = {}
  /\ UNCHANGED <<sceneVars, colliders>>
  /\ UNCHANGED <<proxyVars, renderRaf, poseDetector, videoState, videoStream,
                 detectTimers, awaiting, startAwait, starts, playAwait,
                 endedSeen>>

\* The video element learns its dimensions after the stream started.
VideoDimensions ==
  /\ videoState = "loading"
  /\ videoState' = "playing"
  /\ ran' = {}
  /\ UNCHANGED <<sceneVars, colliders>>
  /\ UNCHANGED <<proxyVars, renderRaf, poseDetector, videoStream,
                 startDisabled, stopDisabled, animationId, detectRaf,
                 detectTimers, awaiting, startAwait, starts, stopped, playAwait,
                 endedSeen>>

\* The capture stream ends (its tracks were stopped, or the device went away).
StreamEnded ==
  /\ videoState = "playing"
  /\ videoState' = "ended"
  /\ ran' = {}
  /\ UNCHANGED <<sceneVars, colliders>>
  /\ UNCHANGED <<proxyVars, renderRaf, poseDetector, videoStream,
                 startDisabled, stopDisabled, animationId, detectRaf,
                 detectTimers, awaiting, startAwait, starts, stopped, playAwait,
                 endedSeen>>

\* detectPose whose not-ready branch returns without requesting a frame.
detectPose_NotReadyReturns(id, pendingRaf) ==
  IF ~poseDetector \/ videoState \in {"nosrc", "loading"}
  THEN /\ animationId' = id
       /\ detectRaf' = pendingRaf
       /\ awaiting' = awaiting
       /\ endedSeen' = endedSeen
       /\ ran' = {"detectPose"}
  ELSE IF videoState = "ended"
  THEN /\ animationId' = IF id = "pending" THEN "spent" ELSE id
       /\ detectRaf' = pendingRaf
       /\ awaiting' = awaiting
       /\ endedSeen' = TRUE
       /\ ran' = {"detectPose"}
  ELSE /\ animationId' = id
       /\ detectRaf' = pendingRaf
       /\ awaiting' = awaiting + 1
       /\ endedSeen' = endedSeen
       /\ ran' = {"detectPose", "detectForVideo"}

\* detectPose() from its entry to its first return or to the await.
\* id is animationId as the invocation finds it.
detectPose(id, pendingRaf) ==
  IF ~poseDetector \/ videoState \in {"nosrc", "loading"}
  THEN \* not ready: animationId = requestAnimationFrame(detectPose)
       /\ animationId' = "pending"
       /\ detectRaf' = IF id = "pending" THEN pendingRaf + 1 ELSE pendingRaf
       /\ awaiting' = awaiting
       /\ endedSeen' = endedSeen
       /\ ran' = {"detectPose", "requestAnimationFrame"}
  ELSE IF videoState = "ended"
  THEN \* paused or ended: status text, cancelAnimationFrame(animationId),
       \* no re-arm
       /\ animationId' = IF id = "pending" THEN "spent" ELSE id
       /\ detectRaf' = pendingRaf
       /\ awaiting' = awaiting
       /\ endedSeen' = TRUE
       /\ ran' = {"detectPose"}
  ELSE \* await poseDetector.detectForVideo(video, startTimeMs)
       /\ animationId' = id
       /\ detectRaf' = pendingRaf
       /\ awaiting' = awaiting + 1
       /\ endedSeen' = endedSeen
       /\ ran' = {"detectPose", "detectForVideo"}

\* The 500 ms timer of the start handler fires.
DetectTimer ==
  /\ detectTimers > 0
  /\ detectTimers' = detectTimers - 1
  /\ detectPose(animationId, detectRaf)
  /\ UNCHANGED <<sceneVars, colliders>>
  /\ UNCHANGED <<proxyVars, renderRaf, poseDetector, videoState, videoStream,
                 startDisabled, stopDisabled, startAwait, starts, stopped, playAwait>>

\* The frame request animationId names fires.
DetectFrame ==
  /\ animationId = "pending"
  /\ detectPose("spent", detectRaf)
  /\ UNCHANGED <<sceneVars, colliders>>
  /\ UNCHANGED <<proxyVars, renderRaf, poseDetector, videoState, videoStream,
                 startDisabled, stopDisabled, detectTimers, startAwait, starts,
                 stopped, playAwait>>

\* A frame request animationId no longer names fires.
DetectStaleFrame ==
  /\ detectRaf > 0
  /\ detectPose(animationId, detectRaf - 1)
  /\ UNCHANGED <<sceneVars, colliders>>
  /\ UNCHANGED <<proxyVars, renderRaf, poseDetector, videoState, videoStream,
                 startDisabled, stopDisabled, detectTimers, startAwait, starts,
                 stopped, playAwait>>

\* results.landmarks of the detections a run of the page sees, and what
\* drawResults' call calculateBodyBoundingBoxes(poseLandmarks) returns for
\* each, tabulated once.
PageDetections == [k \in 1..PagePoses |-> Landmarks(<<DetectedPose(k)>>)]
PageBodyBoxes == [k \in 1..PagePoses |-> calculateBodyBoundingBoxes(PageDetections[k])]

\* detectForVideo resolved with a pose: drawResults(landmarks) updates the
\* proxies and calls soccerScene.render(), which requests its own next
\* frame; then detectPose re-arms.
DetectResumePose ==
  /\ awaiting > 0
  /\ renderRaf < MaxRender
  /\ awaiting' = awaiting - 1
  /\ \E k \in 1..PagePoses :
       /\ poseLandmarks' = PageDetections[k]
       /\ bodyBoxes' = PageBodyBoxes[k]
       /\ updateColliderBoxes(bodyBoxes')
  /\ \E far \in SUBSET rapierWorld : render(far)
  /\ renderRaf' = renderRaf + 1
  /\ rearm
  /\ ran' = {"detectPose", "calculateBodyBoundingBoxes", "updateColliderBoxes",
             "step", "requestAnimationFrame"}
  /\ UNCHANGED <<poseDetector, videoState, videoStream, startDisabled,
                 stopDisabled, detectTimers, startAwait, starts, stopped, playAwait,
                 endedSeen>>

\* detectForVideo resolved without a detection: only the re-arm.
DetectResumeNone ==
  /\ awaiting > 0
  /\ awaiting' = awaiting - 1
  /\ rearm
  /\ ran' = {"detectPose", "noDetection", "requestAnimationFrame"}
  /\ UNCHANGED <<sceneVars, colliders>>
  /\ UNCHANGED <<proxyVars, renderRaf, poseDetector, videoState, videoStream,
                 startDisabled, stopDisabled, detectTimers, startAwait, starts,
                 stopped, playAwait,
                 endedSeen>>

\* detectForVideo (or the code after it) threw: the catch block cancels
\* animationId and does not re-arm.
DetectResumeError ==
  /\ awaiting > 0
  /\ awaiting' = awaiting - 1
  /\ cancel
  /\ ran' = {"detectPose"}
  /\ UNCHANGED <<sceneVars, colliders>>
  /\ UNCHANGED <<proxyVars, renderRaf, poseDetector, videoState, videoStream,
                 startDisabled, stopDisabled, detectTimers, startAwait, starts,
                 stopped, playAwait,
                 endedSeen>>

\* A call of the public render() by any client of the class.
RenderCall ==
  /\ \E far \in SUBSET rapierWorld : render(far)
  /\ ran' = {"step"}
  /\ UNCHANGED <<proxyVars, renderRaf, colliders>>
  /\ UNCHANGED loopVars

\* State after the module body ran: the scene is constructed and empty, the
\* pose model is still loading, nothing is scheduled but the spawn interval.
\* The buttons' initial disabled attributes come from the page markup, which
\* the script does not set: both values are admitted.
InitPage ==
  /\ balls = << >>
  /\ scene = {}
  /\ rapierWorld = {}
  /\ meshFar = {}
  /\ bodyFar = {}
  /\ spawnCount = 0
  /\ farCount = 0
  /\ removeCalls = << >>
  /\ colliders = {groundCollider}
  /\ colliderBoxes = [p \in Parts |-> NoProxy]
  /\ proxies = {}
  /\ created = [p \in Parts |-> 0]
  /\ placed = [p \in Parts |-> 0]
  /\ renderRaf = 0
  /\ poseDetector = FALSE
  /\ videoState = "nosrc"
  /\ videoStream = FALSE
  /\ startDisabled \in BOOLEAN
  /\ stopDisabled \in BOOLEAN
  /\ animationId = "undefined"
  /\ detectRaf = 0
  /\ detectTimers = 0
  /\ awaiting = 0
  /\ startAwait = 0
  /\ playAwait = 0
  /\ starts = 0
  /\ stopped = FALSE
  /\ endedSeen = FALSE
  /\ ran = {}

Init ==
  /\ InitPage
  /\ poseLandmarks = Undefined
  /\ bodyBoxes = Undefined

\* The class SoccerScene under any sequence of timer ticks and render calls.
NextScene == SpawnTick \/ RenderCall

SpecScene == Init /\ [][NextScene]_vars

\* The same, with the interval timer of the constructor firing as long as
\* the run's spawn budget lasts: setInterval is never cleared.
SpecSceneTimer == SpecScene /\ WF_vars(SpawnTick)

\* The page: timers, frame callbacks, button clicks and promise resolutions.
Next ==
  \/ PageSpawnTick
  \/ RenderFrame
  \/ PoseLoaded
  \/ StartClick
  \/ StartGotStream
  \/ StartPlaying
  \/ StartRejected
  \/ StopClick
  \/ VideoDimensions
  \/ StreamEnded
  \/ DetectTimer
  \/ DetectFrame
  \/ DetectStaleFrame
  \/ DetectResumePose
  \/ DetectResumeNone
  \/ DetectResumeError

Spec == Init /\ [][Next]_vars

\* A call of calculateBodyBoundingBoxes on the argument drawn at the start.
MapCall ==
  /\ bodyBoxes.kind = "undefined"
  /\ bodyBoxes' = calculateBodyBoundingBoxes(poseLandmarks)
  /\ ran' = {"calculateBodyBoundingBoxes"}
  /\ UNCHANGED <<colliderBoxes, proxies, created, placed, poseLandmarks, renderRaf>>
  /\ UNCHANGED <<sceneVars, colliders>>
  /\ UNCHANGED loopVars

InitMapper ==
  /\ InitPage
  /\ poseLandmarks \in MapperInputs
  /\ bodyBoxes = Undefined

\* The Keypoint Mapper as a pure function of its argument.
NextMapper == MapCall

SpecMapper == InitMapper /\ [][NextMapper]_vars

\* The key sets of the bodyBoxes objects passed to updateColliderBoxes: the
\* mapper's six keys, and since the parameter is typed any, also objects
\* with fewer keys.
KeySets == {Parts, {"head"}, {"leftHand", "rightHand"}, {}}

\* What calculateBodyBoundingBoxes returns for each detected pose,
\* tabulated once.
PoseBodyBoxes ==
  [k \in 1..Poses |-> calculateBodyBoundingBoxes(Landmarks(<<DetectedPose(k)>>))]

\* A call of the public updateColliderBoxes(bodyBoxes) with the boxes of a
\* detected pose under one of the given key sets.
UpdateWith(keySets) ==
  /\ \E k \in 1..Poses, keys \in keySets :
       LET full == PoseBodyBoxes[k]
       IN  /\ bodyBoxes' = [kind |-> "boxes", boxes |-> [p \in keys |-> full.boxes[p]]]
           /\ updateColliderBoxes(bodyBoxes')
  /\ ran' = {"updateColliderBoxes"}
  /\ UNCHANGED <<poseLandmarks, renderRaf>>
  /\ UNCHANGED sceneVars
  /\ UNCHANGED loopVars

\* A call of the public updateColliderBoxes(bodyBoxes) by any client.
UpdateCall == UpdateWith(KeySets)

\* The Collider Proxy Synchronizer under any sequence of calls.
NextProxy == UpdateCall

SpecProxy == Init /\ [][NextProxy]_vars

\* The call drawResults makes: updateColliderBoxes with the mapper's result.
MappedUpdateCall == UpdateWith({Parts})

\* The class SoccerScene under any sequence of timer ticks, render calls
\* and proxy updates.
NextWorld == SpawnTick \/ RenderCall \/ MappedUpdateCall

SpecWorld == Init /\ [][NextWorld]_vars

\* ------------------------------------------------------------------ claims

\* Spawn order: handles are numbered by spawn tick, so older means smaller.
OldestToNewest(bs) ==
  \A i, j \in DOMAIN bs : i < j => bs[i].mesh < bs[j].mesh

\* C1: after N > maxBalls spawn ticks with no projectile ever beyond the
\* removal distance, exactly maxBalls projectiles are live and the live list
\* is ordered oldest-to-newest by spawn order.
C1_CountEqualsCap ==
  (spawnCount > maxBalls /\ farCount = 0)
    => /\ Len(balls) = maxBalls
       /\ Cardinality(scene) = maxBalls
       /\ Cardinality(rapierWorld) = maxBalls
       /\ OldestToNewest(balls)

C1_Witness ==
  /\ spawnCount = maxBalls + 2
  /\ farCount = 0
  /\ Len(balls) = maxBalls
  /\ "cleanupBalls" \in ran

\* C2 as stated: after N > maxBalls spawn ticks with no projectile ever
\* beyond the removal distance, the survivors are exactly the N - maxBalls
\* most recently spawned projectiles.
C2_Original ==
  (spawnCount > maxBalls /\ farCount = 0)
    => LET k == spawnCount - maxBalls
       IN  Meshes(balls) = (spawnCount - k + 1)..spawnCount

\* C2 amended: under the same premise the survivors are exactly the maxBalls
\* most recently spawned projectiles (the N - maxBalls oldest are evicted).
C2_SurvivorsAreNewest ==
  (spawnCount > maxBalls /\ farCount = 0)
    => /\ Meshes(balls) = (spawnCount - maxBalls + 1)..spawnCount
       /\ Bodies(balls) = (spawnCount - maxBalls + 1)..spawnCount

C2_Witness ==
  /\ spawnCount = maxBalls + 2
  /\ farCount = 0
  /\ Meshes(balls) = 3..(maxBalls + 2)
  /\ 1 \notin scene /\ 2 \notin scene

\* C3: in every reachable state the number of live projectiles (entries of
\* balls, ball meshes in the scene, ball bodies in the physics world) is at
\* most maxBalls.
C3_NeverAboveCap ==
  /\ Len(balls) <= maxBalls
  /\ Cardinality(scene) <= maxBalls
  /\ Cardinality(rapierWorld) <= maxBalls

C3_Witness ==
  /\ spawnCount > maxBalls
  /\ Len(balls) = maxBalls
  /\ "step" \in ran

\* C4: a cleanup pass removes every projectile that is beyond the removal
\* distance when the pass starts, whatever the population count.
C4_DistanceEviction ==
  [][ "cleanupBalls" \in ran'
        => \A i \in DOMAIN balls :
             (balls[i].mesh \in meshFar \/ balls[i].rigidBody \in bodyFar)
               => /\ balls[i].mesh \notin Meshes(balls')
                  /\ balls[i].mesh \notin scene'
                  /\ balls[i].rigidBody \notin rapierWorld' ]_vars

\* A distance removal that happened with the population below the cap.
C4_Witness ==
  /\ "cleanupBalls" \in ran
  /\ farCount > 0
  /\ spawnCount <= maxBalls
  /\ Len(balls) < spawnCount

\* C5 as stated: cleanup accompanies every physics step, so no step starts
\* with a live projectile beyond the removal distance left by an earlier step.
C5_Original ==
  [][ "step" \in ran'
        => \A i \in DOMAIN balls : balls[i].rigidBody \notin bodyFar ]_vars

\* C5 amended: the cleanup pass runs at the end of every spawn tick and in no
\* physics step: a step removes no projectile (one beyond the removal
\* distance stays live across steps), and after a spawn tick no live
\* projectile is beyond the removal distance.
C5_CleanupOnSpawnOnly ==
  [][ /\ "step" \in ran'
          => balls' = balls /\ scene' = scene /\ rapierWorld' = rapierWorld
      /\ "spawnBall" \in ran'
          => /\ Meshes(balls') \cap meshFar = {}
             /\ Meshes(balls') \cap meshFar' = {} ]_vars

\* A step has run, no cleanup came with it, and a projectile beyond the
\* removal distance is still live for the next step.
C5_Witness ==
  /\ "step" \in ran
  /\ \E i \in DOMAIN balls : balls[i].mesh \in meshFar /\ balls[i].rigidBody \in bodyFar

\* C6: the ball meshes in the scene graph, the ball bodies in the physics
\* world and the entries of balls correspond one to one; no removal releases
\* one of a pair without the other.
C6_PairedRelease ==
  /\ scene = Meshes(balls)
  /\ rapierWorld = Bodies(balls)
  /\ Cardinality(scene) = Len(balls)
  /\ Cardinality(rapierWorld) = Len(balls)
  /\ \A i \in DOMAIN balls : balls[i].mesh = balls[i].rigidBody

\* Both removals have acted: the oldest went by the cap, a younger one by
\* distance.
C6_Witness ==
  /\ spawnCount = maxBalls + 2
  /\ 1 \notin scene
  /\ \E id \in 3..(maxBalls + 1) : id \notin scene /\ id \notin rapierWorld
  /\ Len(balls) = maxBalls

\* C7: at most one next-frame request of the render/physics iteration is
\* pending, so each display frame steps the physics world once.
C7_SingleRenderRequest == renderRaf <= 1

\* C8: while stopped (stop clicked, start not clicked since) no detectPose
\* iteration runs and no perception call is issued.
C8_NoDetectionAfterStop ==
  stopped => ("detectPose" \notin ran /\ "detectForVideo" \notin ran)

\* C9: while stopped the physics world is not stepped.
C9_NoStepAfterStop == stopped => "step" \notin ran

\* C10: at most one perception call is outstanding.
C10_OneOutstandingCall == awaiting <= 1

\* C11: every physics step sees the proxy placement computed in the same
\* display frame: a handler that steps the world has synchronized the
\* proxies first.
C11_StepAfterSameFrameSync == "step" \in ran => "updateColliderBoxes" \in ran

\* C12: on a frame whose perception result has no detection the physics
\* world is still stepped and the scene rendered: the handler steps it, or
\* a pending render request will in that display frame.
C12_NoDetectionStillSteps ==
  "noDetection" \in ran => ("step" \in ran \/ renderRaf > 0)

\* C13: proxy identity is stable.  Over any sequence of updateColliderBoxes
\* calls each part has a proxy constructed and added to the scene at most
\* once, by the first call that carries a box for it, and afterwards that
\* proxy is neither removed from the scene nor replaced.
C13_ProxyIdentityStable ==
  [][\A p \in Parts :
       /\ created'[p] <= 1
       /\ Cardinality({q \in proxies' : q[1] = p}) <= 1
       /\ proxies \subseteq proxies'
       /\ colliderBoxes[p].mesh # 0 => colliderBoxes'[p].mesh = colliderBoxes[p].mesh
       /\ colliderBoxes'[p].mesh # 0 => <<p, colliderBoxes'[p].mesh>> \in proxies'
       /\ created'[p] # created[p] =>
            /\ "updateColliderBoxes" \in ran'
            /\ p \in DOMAIN bodyBoxes'.boxes
            /\ colliderBoxes[p].mesh = 0
       /\ ("updateColliderBoxes" \in ran' /\ p \in DOMAIN bodyBoxes'.boxes) =>
            colliderBoxes'[p].mesh # 0]_vars

\* The head proxy was created by one call and placed again by a later one,
\* and it is still the only mesh of the scene's proxies.
C13_Witness ==
  /\ placed["head"] = 2
  /\ created["head"] = 1
  /\ colliderBoxes["head"].mesh = 1
  /\ proxies = {<<"head", 1>>}

\* The keypoint sequence handed to the mapper is absent, has no detection,
\* or its detection has an empty keypoint list.
AbsentOrEmpty(landmarks) ==
  \/ landmarks.kind = "undefined"
  \/ Len(landmarks.items) = 0
  \/ Len(landmarks.items[1]) = 0

\* C14: for an absent or empty keypoint sequence, a detection with an empty
\* keypoint list included, the Keypoint Mapper returns "no result" (null)
\* and does not throw.
C14_NoResultOnEmpty ==
  ("calculateBodyBoundingBoxes" \in ran /\ AbsentOrEmpty(poseLandmarks))
    => bodyBoxes.kind = "null"

\* The mapper was called on a non-empty keypoint list of the 33-point layout.
MappedFullLayout ==
  /\ "calculateBodyBoundingBoxes" \in ran
  /\ poseLandmarks.kind = "array"
  /\ Len(poseLandmarks.items) > 0
  /\ Len(poseLandmarks.items[1]) = LayoutLength

\* C15: for a non-empty keypoint list of the 33-point layout the Keypoint
\* Mapper produces exactly six boxes, keyed head, leftHand, rightHand,
\* leftLeg, rightLeg and torso, each with minX <= maxX and minY <= maxY.
C15_SixOrderedBoxes ==
  MappedFullLayout =>
    /\ bodyBoxes.kind = "boxes"
    /\ DOMAIN bodyBoxes.boxes =
         {"head", "leftHand", "rightHand", "leftLeg", "rightLeg", "torso"}
    /\ \A p \in DOMAIN bodyBoxes.boxes :
         /\ bodyBoxes.boxes[p].kind = "box"
         /\ bodyBoxes.boxes[p].minX <= bodyBoxes.boxes[p].maxX
         /\ bodyBoxes.boxes[p].minY <= bodyBoxes.boxes[p].maxY

\* A full-layout pose was mapped to six boxes, of which one is flat (its
\* keypoints share one x) and one has extent on both axes.
C15_Witness ==
  /\ MappedFullLayout
  /\ bodyBoxes.kind = "boxes"
  /\ \E p \in Parts : /\ bodyBoxes.boxes[p].minX < bodyBoxes.boxes[p].maxX
                      /\ bodyBoxes.boxes[p].minY < bodyBoxes.boxes[p].maxY
  /\ \E p \in Parts : bodyBoxes.boxes[p].minX = bodyBoxes.boxes[p].maxX

\* The keypoints of a part's group after ndcX = x*2-1 and ndcY = -(y*2-1),
\* in ticks of 1/Unit.
GroupXs(part) ==
  LET pts == GroupPoints(poseLandmarks.items[1], part)
  IN  {2 * pts[i].x * (Unit \div Grid) - Unit : i \in DOMAIN pts}

GroupYs(part) ==
  LET pts == GroupPoints(poseLandmarks.items[1], part)
  IN  {Unit - 2 * pts[i].y * (Unit \div Grid) : i \in DOMAIN pts}

\* C16: padding law.  Each box is the tight per-axis minimum / maximum of
\* its group's keypoints after ndcX = x*2-1, ndcY = -(y*2-1), moved out by
\* 5 % of the raw width on each x side and 5 % of the raw height on each y
\* side, so that the padded width is the raw width times 1.10.
C16_PaddingLaw ==
  ("calculateBodyBoundingBoxes" \in ran /\ bodyBoxes.kind = "boxes") =>
    \A p \in Parts :
      LET box == bodyBoxes.boxes[p]
          W   == MaxOf(GroupXs(p)) - MinOf(GroupXs(p))
          H   == MaxOf(GroupYs(p)) - MinOf(GroupYs(p))
      IN  /\ 100 * box.minX = 100 * MinOf(GroupXs(p)) - 5 * W
          /\ 100 * box.maxX = 100 * MaxOf(GroupXs(p)) + 5 * W
          /\ 100 * box.minY = 100 * MinOf(GroupYs(p)) - 5 * H
          /\ 100 * box.maxY = 100 * MaxOf(GroupYs(p)) + 5 * H
          /\ 100 * (box.maxX - box.minX) = 110 * W
          /\ 100 * (box.maxY - box.minY) = 110 * H

\* A group of raw width 1.0 was mapped to a box of padded width 1.10.
C16_Witness ==
  /\ "calculateBodyBoundingBoxes" \in ran
  /\ bodyBoxes.kind = "boxes"
  /\ \E p \in Parts :
       /\ MaxOf(GroupXs(p)) - MinOf(GroupXs(p)) = Unit
       /\ 100 * (bodyBoxes.boxes[p].maxX - bodyBoxes.boxes[p].minX) = 110 * Unit

\* C17: once detectPose has observed the capture stream paused or ended, the
\* display loop has terminated: no handler requests a further animation
\* frame, for detection or for render/physics, until start is clicked again.
C17_NoFrameRequestAfterEnded == endedSeen => "requestAnimationFrame" \notin ran

\* C18: removeRigidBody / scene.remove is invoked at most once per
\* projectile handle: a handle removed by the distance predicate or by the
\* cap is in no list, scene or world that a later pass could remove it from.
C18_RemovedAtMostOnce ==
  \A h \in DOMAIN removeCalls :
    /\ removeCalls[h] <= 1
    /\ removeCalls[h] = 1 =>
         /\ \A i \in DOMAIN balls : balls[i].rigidBody # h /\ balls[i].mesh # h
         /\ h \notin scene
         /\ h \notin rapierWorld

\* One projectile went by the distance predicate, one by the cap, and a
\* later pass has run since: twelve spawns, two removal calls in all.
C18_Witness ==
  /\ spawnCount >= 12
  /\ farCount = 1
  /\ bodyFar = {}
  /\ Len(balls) = maxBalls
  /\ Cardinality({h \in DOMAIN removeCalls : removeCalls[h] = 1}) = 2

\* The list a cleanup pass starts from (the list with the new ball pushed)
\* without the balls whose mesh is beyond the removal distance.
NearAfterPush ==
  SelectSeq(Append(balls, [mesh |-> spawnCount + 1, rigidBody |-> spawnCount + 1]),
            LAMBDA b : b.mesh \notin meshFar)

\* C19: in one cleanup pass the distance predicate is applied first and the
\* cap second, on the survivors only: what the pass leaves is the newest end
\* of the near balls, the cap evicts only while more than 10 of them
\* remain, and none when distance removal alone leaves 10 or fewer.
C19_DistanceThenCap ==
  [][("cleanupBalls" \in ran') =>
       /\ Len(NearAfterPush) <= 10 => balls' = NearAfterPush
       /\ Len(NearAfterPush) > 10 =>
            /\ Len(balls') = 10
            /\ balls' = SubSeq(NearAfterPush, Len(NearAfterPush) - 9, Len(NearAfterPush))
       /\ \A i \in DOMAIN balls' : balls'[i].mesh \notin meshFar]_vars

\* Eleven balls were spawned and one of them, not the oldest, went by the
\* distance predicate: the pass after the eleventh spawn left 10 balls and
\* evicted nothing, so the oldest ball is still first in the list.
C19_Witness ==
  /\ "cleanupBalls" \in ran
  /\ spawnCount = 11
  /\ Len(balls) = 10
  /\ balls[1].mesh = 1
  /\ \E h \in 2..10 : removeCalls[h] = 1

\* C20: after every updateColliderBoxes call, each part with a box in the
\* call has scale (3*(maxX-minX), 3*(maxY-minY), 0.2) and position
\* (3*(maxX+minX)/2, 3*(maxY+minY)/2, 0) of that call's box, whether its
\* proxy was created by the call or before it; the proxies of the parts
\* absent from the call are unchanged.
C20_TransformFromThisCall ==
  [][("updateColliderBoxes" \in ran') =>
       \A p \in Parts :
         IF p \in DOMAIN bodyBoxes'.boxes
         THEN LET box == bodyBoxes'.boxes[p]
              IN  /\ colliderBoxes'[p].mesh # 0
                  /\ colliderBoxes'[p].scale =
                       <<3 * (box.maxX - box.minX), 3 * (box.maxY - box.minY),
                         (2 * Unit) \div 10>>
                  /\ 2 * colliderBoxes'[p].position[1] = 3 * (box.maxX + box.minX)
                  /\ 2 * colliderBoxes'[p].position[2] = 3 * (box.maxY + box.minY)
                  /\ colliderBoxes'[p].position[3] = 0
         ELSE colliderBoxes'[p] = colliderBoxes[p]]_vars

\* The last call carried only a head box, of the second pose: the head
\* proxy, created by an earlier call, shows that box, the hand proxies still
\* show the first pose's boxes, and the legs have no proxy yet.
C20_Witness ==
  /\ "updateColliderBoxes" \in ran
  /\ DOMAIN bodyBoxes.boxes = {"head"}
  /\ placed["head"] = 2
  /\ placed["leftHand"] = 1
  /\ colliderBoxes["head"].mesh = 1
  /\ colliderBoxes["head"].scale =
       proxyTransform(calculateBodyBoundingBoxes(
                        Landmarks(<<DetectedPose(2)>>)).boxes["head"]).scale
  /\ colliderBoxes["leftHand"].scale =
       proxyTransform(calculateBodyBoundingBoxes(
                        Landmarks(<<DetectedPose(1)>>)).boxes["leftHand"]).scale
  /\ colliderBoxes["head"].scale # colliderBoxes["leftHand"].scale
  /\ colliderBoxes["leftLeg"].mesh = 0

\* C21: proxy synchronization never touches the physics world.  An
\* updateColliderBoxes call leaves the bodies and the colliders of the
\* world as they were, and in every reachable state the colliders are
\* exactly the ground collider and one collider per live projectile.
C21_ProxiesOutsidePhysics ==
  /\ [](/\ colliders = {groundCollider}
                         \cup {ballCollider(balls[i].rigidBody) : i \in DOMAIN balls}
        /\ Cardinality(colliders) = 1 + Len(balls))
  /\ [][("updateColliderBoxes" \in ran') =>
          /\ rapierWorld' = rapierWorld
          /\ colliders' = colliders]_vars

\* The six proxies were created while ten projectiles are live, after one
\* projectile went by the distance predicate and one by the cap: the world
\* holds eleven colliders.
C21_Witness ==
  /\ "updateColliderBoxes" \in ran
  /\ \A p \in Parts : colliderBoxes[p].mesh = 1
  /\ Len(balls) = maxBalls
  /\ spawnCount >= 12
  /\ farCount = 1
  /\ bodyFar = {}
  /\ Cardinality(colliders) = 11

\* C22: not-ready handling.  A detectPose iteration that finds the
\* perception engine not loaded or the video dimensions unknown issues no
\* perception call, changes no proxy, projectile or physics state and
\* requests its next frame; one that finds both available and the video
\* playing proceeds to the perception call.
C22_NotReadyDefers ==
  [][("detectPose" \in ran' /\ awaiting' >= awaiting) =>
       IF ~poseDetector \/ videoState \in {"nosrc", "loading"}
       THEN /\ "detectForVideo" \notin ran'
            /\ "step" \notin ran'
            /\ awaiting' = awaiting
            /\ UNCHANGED <<colliderBoxes, proxies, created, placed>>
            /\ UNCHANGED <<balls, scene, meshFar, removeCalls>>
            /\ UNCHANGED <<rapierWorld, colliders, bodyFar>>
            /\ "requestAnimationFrame" \in ran'
            /\ animationId' = "pending"
       ELSE videoState = "playing" =>
              /\ "detectForVideo" \in ran'
              /\ awaiting' = awaiting + 1]_vars

\* An iteration found the engine loaded but the video without dimensions,
\* and left a frame request pending.
C22_Witness ==
  /\ ran = {"detectPose", "requestAnimationFrame"}
  /\ poseDetector
  /\ videoState = "loading"
  /\ animationId = "pending"
  /\ awaiting = 0

\* The projectile with handle h is in the live set: in the list, the scene
\* or the physics world.
Live(h) ==
  \/ \E i \in DOMAIN balls : balls[i].rigidBody = h \/ balls[i].mesh = h
  \/ h \in scene
  \/ h \in rapierWorld

\* C23 as stated: while the spawn timer keeps firing, every spawned
\* projectile eventually leaves the live set, at the latest on the tenth
\* spawn tick after its own, whether or not render() runs.  (Eventual
\* removal is stated for the handles whose tenth later tick lies within the
\* run's spawn budget.)
C23_Original ==
  /\ [](\A h \in 1..spawnCount : h + 10 <= spawnCount => ~Live(h))
  /\ \A h \in 1..(MaxSpawns - 10) : (spawnCount >= h /\ Live(h)) ~> ~Live(h)

\* C23, amended: a projectile leaves the live set at the latest on the
\* tick that finds ten newer projectiles live with it.  That is the tenth
\* tick after its own when no body has crossed the removal distance, and
\* every such crossing postpones it by at most one tick; whether or not
\* render() runs, and eventually while the timer keeps firing.
C23_AgingOutAfterTenNewer ==
  /\ [](\A h \in 1..spawnCount :
          /\ Live(h) => Cardinality({g \in (h + 1)..spawnCount : Live(g)}) <= 9
          /\ h + 10 + farCount <= spawnCount => ~Live(h))
  /\ \A h \in 1..(MaxSpawns - 10 - MaxFar) : (spawnCount >= h /\ Live(h)) ~> ~Live(h)

\* Twelve ticks, one body carried beyond the removal distance on the way:
\* the first projectile is gone, removed once, and the second is still live
\* ten ticks after its own.
C23_Witness ==
  /\ spawnCount = 12
  /\ farCount = 1
  /\ ~Live(1)
  /\ removeCalls[1] = 1
  /\ Live(2)
  /\ Len(balls) = maxBalls

====
